---- MODULE Spec2Model ----
(***************************************************************************)
(* Model of the `send` command of os2cw (src/cmd/send.go): the metric      *)
(* registry and unit table built by init(), system id resolution           *)
(* (generateID), session configuration (configureSession), the three      *)
(* fatal gates, deduplication of the requested metrics and the dispatch    *)
(* loop with its aggregated exit code.                                     *)
(***************************************************************************)
EXTENDS Integers, Sequences, FiniteSets, TLC

\* ---------------------------------------------------------------- bounds
\* longest positional argument list / configured "metrics" list explored
MaxArgs == 2
MaxCfg == 1

\* ---------------------------------------------------------------- inputs
\* metric ids a user may request: two registered ones and an unknown one
ReqIds == {"mem-free", "uptime", "bogus"}
\* unit tokens a user may configure: the five of the table and an unknown one
UnitTokens == {"b", "kb", "mb", "gb", "tb", "xx"}
\* the tokens explored together with every other input: the two defaults
\* (memoryUnit kb, volumeUnit mb) and an unknown one
DefaultUnitTokens == {"kb", "mb", "xx"}
\* value of the --id flag ("" when not given)
FlagIDs == {"", "web-01"}
\* viper "region" (default seeded from getRegion(), "" when metadata fails)
Regions == {"", "us-east-1"}
\* viper "accessKey" ("" when not configured)
AccessKeys == {"", "AKIA"}
\* what GetMetadata("instance-id") / os.Hostname() can answer: (value, err)
MetadataResults ==
    { [err |-> TRUE, val |-> ""],
      [err |-> FALSE, val |-> "i-0abc"],
      [err |-> FALSE, val |-> ""] }
HostnameResults ==
    { [err |-> TRUE, val |-> ""],
      [err |-> FALSE, val |-> "host-1"],
      [err |-> FALSE, val |-> ""] }
\* a provider that was not consulted in this run
NotCalled == [err |-> TRUE, val |-> "not-called"]

SeqsUpTo(S, n) == UNION { [1..k -> S] : k \in 0..n }
Range(s) == { s[i] : i \in 1..Len(s) }

\* all orders in which a range over a Go map with key set S may visit its keys
RECURSIVE Orders(_)
Orders(S) ==
    IF S = {} THEN { <<>> }
    ELSE UNION { { <<x>> \o t : t \in Orders(S \ {x}) } : x \in S }

\* ------------------------------------------------------ 64-bit multipliers
\* A multiplier is kept as <<hi, lo>> with value hi * 2^20 + lo, so that
\* 1024^4 stays exact.
Limb == 1024 * 1024
One == <<0, 1>>
Times1024(v) == << v[1] * 1024 + ((v[2] * 1024) \div Limb), (v[2] * 1024) % Limb >>

\* ------------------------------------------------------------ init() tables
InitStorageUnits_Decimal ==
    [ t \in {"b", "kb", "mb", "gb", "tb"} |->
        CASE t = "b"  -> [Name |-> "Bytes", Multiplier |-> One]
          [] t = "kb" -> [Name |-> "Kilobytes", Multiplier |-> <<0, 1000>>]
          [] t = "mb" -> [Name |-> "Megabytes", Multiplier |-> Times1024(Times1024(One))]
          [] t = "gb" -> [Name |-> "Gigabytes",
                          Multiplier |-> Times1024(Times1024(Times1024(One)))]
          [] t = "tb" -> [Name |-> "Terabytes",
                          Multiplier |-> Times1024(Times1024(Times1024(Times1024(One))))] ]

InitStorageUnits ==
    [ t \in {"b", "kb", "mb", "gb", "tb"} |->
        CASE t = "b"  -> [Name |-> "Bytes", Multiplier |-> One]
          [] t = "kb" -> [Name |-> "Kilobytes", Multiplier |-> Times1024(One)]
          [] t = "mb" -> [Name |-> "Megabytes", Multiplier |-> Times1024(Times1024(One))]
          [] t = "gb" -> [Name |-> "Gigabytes",
                          Multiplier |-> Times1024(Times1024(Times1024(One)))]
          [] t = "tb" -> [Name |-> "Terabytes",
                          Multiplier |-> Times1024(Times1024(Times1024(Times1024(One))))] ]

InitMetricSpecs ==
    [ id \in {"mem-avail", "mem-free", "mem-total", "mem-used", "mem-util",
              "vol-avail", "vol-free", "vol-total", "vol-used", "vol-util",
              "uptime", "procs"} |->
        CASE id = "mem-avail" -> "MemoryFreePercentage"
          [] id = "mem-free"  -> "MemoryFree"
          [] id = "mem-total" -> "MemoryTotal"
          [] id = "mem-used"  -> "MemoryUsed"
          [] id = "mem-util"  -> "MemoryUsedPercentage"
          [] id = "vol-avail" -> "VolumeFreePercentage"
          [] id = "vol-free"  -> "VolumeFree"
          [] id = "vol-total" -> "VolumeTotal"
          [] id = "vol-used"  -> "VolumeUsed"
          [] id = "vol-util"  -> "VolumeUsedPercentage"
          [] id = "uptime"    -> "Uptime"
          [] id = "procs"     -> "Processes" ]

\* ------------------------------------------------------------------ state
VARIABLES
    pc,            \* position in send
    flagID,        \* the --id flag as given
    systemID,      \* package variable systemID
    args,          \* positional arguments of send
    viper,         \* effective configuration read through viper
    metricSpecs,   \* metric registry
    storageUnits,  \* unit table
    sess,          \* the shared session's Config (Region, Credentials)
    configureCalls,\* how many times configureSession ran
    mdSeen,        \* answer of GetMetadata("instance-id"), NotCalled if unused
    hostSeen,      \* answer of os.Hostname(), NotCalled if unused
    calls,         \* collaborators called so far
    metrics,       \* local variable metrics of send
    todo,          \* keys of metricsDistinct still to be visited, in range order
    outcomes,      \* per visited id, in order: "invalid", "ok" or an error outcome
    gate,          \* the fatal gate that ended the run, "none" otherwise
    code,          \* local variable code of send
    exitCode       \* argument of os.Exit, NotExited before

vars == << pc, flagID, systemID, args, viper, metricSpecs, storageUnits, sess,
           configureCalls, mdSeen, hostSeen, calls, metrics, todo, outcomes,
           gate, code, exitCode >>

NotExited == 0 - 1

\* network-facing collaborators among the recorded calls
NetworkTags == {"metadata:region", "metadata:instance-id", "sink"}

\* -------------------------------------------------- s.Run() (not in send.go)
\* Run invokes the handler and, when it succeeds, forwards the value to the
\* reporting sink; it returns an error when either fails.
RunOutcomes == {"ok", "handler-error", "transport-error"}
RunErr(o) == o # "ok"
RunCalls(o) == IF o = "handler-error" THEN {} ELSE {"sink"}

\* ---------------------------------------------------------------- helpers
\* send.go:188-199
generateID_HostnameFirst(md, host) ==
    IF ~host.err THEN host.val
    ELSE IF ~md.err THEN md.val
    ELSE ""

generateID(md, host) ==
    IF ~md.err THEN md.val
    ELSE IF ~host.err THEN host.val
    ELSE ""

\* send.go:126
NeedsGeneratedID(id) == id = ""

\* send.go:130-137: where send goes after the identity gate
AfterIdentity_SkipConfigure(id) ==
    IF id = "" THEN "compute-exit-code" ELSE "resolve-metrics"

AfterIdentity(id) ==
    IF id = "" THEN "compute-exit-code" ELSE "configure-session"

\* send.go:139-144
EffectiveMetrics_Merged(configured, positional) == configured \o positional

EffectiveMetrics(configured, positional) ==
    IF Len(positional) > 0 THEN positional ELSE configured

\* send.go:153-165
UnitsValid_VolumeOnly(units, volumeUnit, memoryUnit) ==
    volumeUnit \in DOMAIN units

UnitsValid_MemoryOnly(units, volumeUnit, memoryUnit) ==
    memoryUnit \in DOMAIN units

UnitsValid(units, volumeUnit, memoryUnit) ==
    /\ volumeUnit \in DOMAIN units
    /\ memoryUnit \in DOMAIN units

\* send.go:167-173: the orders in which the loop may visit the requested ids
RangeOrders_NoDedupe(ms) == { ms }

RangeOrders(ms) == Orders(Range(ms))

\* send.go:173-185: what remains to visit after one iteration
LoopRest_StopOnFailure(rest, ok, err) ==
    IF ok /\ ~err THEN Tail(rest) ELSE <<>>

LoopRest(rest, ok, err) == Tail(rest)

\* send.go:180-184
CodeAfterRun_Reset(c, err) == IF err THEN 1 ELSE 0

CodeAfterRun(c, err) == IF err THEN 1 ELSE c

\* ------------------------------------------------------------------- Init
\* State when send is entered: init() has built both tables, seeded the
\* "region" default through getRegion() and cobra/viper have parsed the
\* flags, the configuration and the positional arguments.
InitWith(tokens, configured, regions, keys) ==
    /\ pc = "validate-identity"
    /\ flagID \in FlagIDs
    /\ systemID = flagID
    /\ args \in SeqsUpTo(ReqIds, MaxArgs)
    /\ viper \in [ metrics : configured,
                   volumeUnit : tokens,
                   memoryUnit : tokens,
                   region : regions,
                   accessKey : keys ]
    /\ metricSpecs = InitMetricSpecs
    /\ storageUnits = InitStorageUnits
    /\ sess = [Region |-> "", Credentials |-> "default-chain"]
    /\ configureCalls = 0
    /\ mdSeen = NotCalled
    /\ hostSeen = NotCalled
    /\ calls = {"metadata:region"}
    /\ metrics = <<>>
    /\ todo = <<>>
    /\ outcomes = <<>>
    /\ gate = "none"
    /\ code = 0
    /\ exitCode = NotExited

\* every input varies, the units over the defaults and an unknown token
Init == InitWith(DefaultUnitTokens, SeqsUpTo(ReqIds, MaxCfg), Regions, AccessKeys)

\* the dispatch inputs vary; the session is left unconfigured
DispatchInit == InitWith(DefaultUnitTokens, SeqsUpTo(ReqIds, MaxCfg), {""}, {""})

\* both units vary over every token; no configured list, region or access key
UnitInit == InitWith(UnitTokens, { <<>> }, {""}, {""})

\* ---------------------------------------------------------------- actions
\* send.go:126-135 with generateID, send.go:188-199
validateIdentity ==
    /\ pc = "validate-identity"
    /\ \E md \in MetadataResults, host \in HostnameResults :
          LET gen == NeedsGeneratedID(systemID)
              id  == IF gen THEN generateID(md, host) ELSE systemID
          IN  /\ systemID' = id
              /\ mdSeen' = IF gen THEN md ELSE NotCalled
              /\ hostSeen' = IF gen /\ md.err THEN host ELSE NotCalled
              /\ calls' = calls \cup
                            (IF gen THEN {"metadata:instance-id"} ELSE {}) \cup
                            (IF gen /\ md.err THEN {"hostname"} ELSE {})
              /\ pc' = AfterIdentity(id)
              /\ gate' = IF id = "" THEN "identity" ELSE gate
              /\ code' = IF id = "" THEN 1 ELSE code
    /\ UNCHANGED << flagID, args, viper, metricSpecs, storageUnits, sess,
                    configureCalls, metrics, todo, outcomes, exitCode >>

\* send.go:137 and configureSession, send.go:207-219
configureSession ==
    /\ pc = "configure-session"
    /\ sess' = [ Region |-> IF viper.region # "" THEN viper.region ELSE sess.Region,
                 Credentials |-> IF viper.accessKey # "" THEN "static"
                                 ELSE sess.Credentials ]
    /\ configureCalls' = configureCalls + 1
    /\ pc' = "resolve-metrics"
    /\ UNCHANGED << flagID, systemID, args, viper, metricSpecs, storageUnits,
                    mdSeen, hostSeen, calls, metrics, todo, outcomes, gate,
                    code, exitCode >>

\* send.go:139-151
resolveMetrics ==
    /\ pc = "resolve-metrics"
    /\ LET ms == EffectiveMetrics(viper.metrics, args)
       IN  /\ metrics' = ms
           /\ pc' = IF Len(ms) = 0 THEN "compute-exit-code" ELSE "validate-units"
           /\ gate' = IF Len(ms) = 0 THEN "metrics" ELSE gate
           /\ code' = IF Len(ms) = 0 THEN 1 ELSE code
    /\ UNCHANGED << flagID, systemID, args, viper, metricSpecs, storageUnits,
                    sess, configureCalls, mdSeen, hostSeen, calls, todo,
                    outcomes, exitCode >>

\* send.go:153-165
validateUnits ==
    /\ pc = "validate-units"
    /\ LET ok == UnitsValid(storageUnits, viper.volumeUnit, viper.memoryUnit)
       IN  /\ pc' = IF ok THEN "dedupe" ELSE "compute-exit-code"
           /\ gate' = IF ok THEN gate ELSE "units"
           /\ code' = IF ok THEN code ELSE 1
    /\ UNCHANGED << flagID, systemID, args, viper, metricSpecs, storageUnits,
                    sess, configureCalls, mdSeen, hostSeen, calls, metrics,
                    todo, outcomes, exitCode >>

\* send.go:167-173: build metricsDistinct; the range order is the runtime's
dedupe ==
    /\ pc = "dedupe"
    /\ todo' \in RangeOrders(metrics)
    /\ pc' = "execute-each"
    /\ UNCHANGED << flagID, systemID, args, viper, metricSpecs, storageUnits,
                    sess, configureCalls, mdSeen, hostSeen, calls, metrics,
                    outcomes, gate, code, exitCode >>

\* send.go:173-185: one iteration of the dispatch loop
executeEach ==
    /\ pc = "execute-each"
    /\ Len(todo) > 0
    /\ LET metric == Head(todo)
           ok == metric \in DOMAIN metricSpecs
       IN  \E o \in RunOutcomes :
              /\ ~ok => o = "ok"
              /\ outcomes' = Append(outcomes,
                                [id |-> metric, result |-> IF ok THEN o ELSE "invalid"])
              /\ code' = IF ok THEN CodeAfterRun(code, RunErr(o)) ELSE code
              /\ calls' = IF ok THEN calls \cup RunCalls(o) ELSE calls
              /\ todo' = LoopRest(todo, ok, ok /\ RunErr(o))
    /\ UNCHANGED << pc, flagID, systemID, args, viper, metricSpecs, storageUnits,
                    sess, configureCalls, mdSeen, hostSeen, metrics, gate,
                    exitCode >>

\* send.go:185-186: the loop is over and send returns
loopDone ==
    /\ pc = "execute-each"
    /\ Len(todo) = 0
    /\ pc' = "compute-exit-code"
    /\ UNCHANGED << flagID, systemID, args, viper, metricSpecs, storageUnits,
                    sess, configureCalls, mdSeen, hostSeen, calls, metrics,
                    todo, outcomes, gate, code, exitCode >>

\* send.go:122-124: the deferred os.Exit(code)
exit ==
    /\ pc = "compute-exit-code"
    /\ exitCode' = code
    /\ pc' = "done"
    /\ UNCHANGED << flagID, systemID, args, viper, metricSpecs, storageUnits,
                    sess, configureCalls, mdSeen, hostSeen, calls, metrics,
                    todo, outcomes, gate, code >>

Next ==
    \/ validateIdentity
    \/ configureSession
    \/ resolveMetrics
    \/ validateUnits
    \/ dedupe
    \/ executeEach
    \/ loopDone
    \/ exit

Spec == Init /\ [][Next]_vars

\* send is sequential code: every step that can be taken is taken
FairSpec == DispatchInit /\ [][Next]_vars /\ WF_vars(Next)

\* the runs of send over every pair of unit tokens
UnitSpec == UnitInit /\ [][Next]_vars

\* ------------------------------------------------- vocabulary of the claims
Done == pc = "done"
FiveTokens == {"b", "kb", "mb", "gb", "tb"}
Invoked(i) == outcomes[i].result # "invalid"
Invocations(id) ==
    Cardinality({ i \in 1..Len(outcomes) : outcomes[i].id = id /\ Invoked(i) })
TotalInvocations == Cardinality({ i \in 1..Len(outcomes) : Invoked(i) })
LookedUp == { outcomes[i].id : i \in 1..Len(outcomes) }
Failed(i) == outcomes[i].result \in {"handler-error", "transport-error"}
\* the list the user asked for, read off the inputs
Requested == IF args # <<>> THEN args ELSE viper.metrics
RequestedRegistered == Range(Requested) \cap DOMAIN InitMetricSpecs
PastGates == pc \in {"dedupe", "execute-each"} \/
             (pc \in {"compute-exit-code", "done"} /\ gate = "none")

\* C1: whenever the requested list, all gates passed, holds an id that is not
\* a key of the registry, the final exit code is non-zero.
C1_InvalidIdExitsNonZero ==
    (Done /\ gate = "none" /\ \E i \in 1..Len(metrics) :
                                 metrics[i] \notin DOMAIN metricSpecs)
        => exitCode # 0

\* C2: once the gates have passed, every distinct requested id that is a key
\* of the registry eventually has its handler invoked, whatever unknown ids
\* or failing handlers come before it.
C2_RegisteredEventuallyInvoked ==
    (pc = "dedupe") ~> (\A id \in RequestedRegistered : Invocations(id) >= 1)

C2_Witness ==
    /\ Done
    /\ Len(outcomes) = 2
    /\ outcomes[1].result = "invalid"
    /\ outcomes[2].result = "ok"

\* C3: each distinct registered id is invoked at most once per run, however
\* often it is repeated and whether or not it failed; at the end the number
\* of invocations is the number of distinct registered ids requested.
C3_OneInvocationPerDistinctId ==
    /\ \A id \in ReqIds : Invocations(id) <= 1
    /\ (Done /\ gate = "none") =>
          TotalInvocations = Cardinality(RequestedRegistered)

C3_Witness ==
    /\ Done
    /\ gate = "none"
    /\ Len(metrics) = 2
    /\ metrics[1] = metrics[2]
    /\ Len(outcomes) = 1
    /\ outcomes[1].result = "handler-error"

\* C4: an empty resolved system id, an empty effective metric list, or a
\* volumeUnit or memoryUnit outside the unit table ends the run with exit
\* code 1 and no handler invoked.
C4_FatalGates ==
    (Done /\ (\/ systemID = ""
              \/ Requested = <<>>
              \/ viper.volumeUnit \notin FiveTokens
              \/ viper.memoryUnit \notin FiveTokens))
        => (exitCode = 1 /\ TotalInvocations = 0)

C4_Witness ==
    /\ Done
    /\ gate = "units"
    /\ systemID # ""
    /\ Requested # <<>>
    /\ viper.volumeUnit \in FiveTokens
    /\ viper.memoryUnit \notin FiveTokens

\* C5: with all gates passed and every requested id registered, the code is 1
\* from the first handler error on (a later success does not reset it), it is
\* 0 as long as no handler has failed, and it is the final exit code.
C5_ExitCodeIffNoHandlerError ==
    (PastGates /\ Range(Requested) \subseteq DOMAIN InitMetricSpecs)
        => /\ (\E i \in 1..Len(outcomes) : Failed(i)) => code = 1
           /\ (\A i \in 1..Len(outcomes) : ~Failed(i)) => code = 0
           /\ Done => exitCode = code

C5_Witness ==
    /\ Done
    /\ Len(outcomes) = 2
    /\ outcomes[1].result = "handler-error"
    /\ outcomes[2].result = "ok"
    /\ exitCode = 1

\* C6: the ids the dispatch loop looks up are always among the positional
\* arguments when one is given, else among the configured list; and a run
\* that passed the gates has looked up exactly those distinct ids.
C6_PositionalReplacesConfigured ==
    /\ args # <<>> => LookedUp \subseteq Range(args)
    /\ args = <<>> => LookedUp \subseteq Range(viper.metrics)
    /\ (Done /\ gate = "none") =>
          LookedUp = (IF args # <<>> THEN Range(args) ELSE Range(viper.metrics))

C6_Witness ==
    /\ Done
    /\ gate = "none"
    /\ args = << "mem-free" >>
    /\ viper.metrics = << "uptime" >>
    /\ LookedUp = {"mem-free"}

\* C7: an explicit id is kept and no provider is consulted; otherwise the
\* instance id is used when the metadata lookup succeeds, otherwise the
\* hostname when it is available; with none of the three the run exits 1
\* before any metric is looked up or executed.
C7_SystemIdResolutionOrder ==
    (pc # "validate-identity") =>
        /\ flagID # "" =>
              /\ systemID = flagID
              /\ mdSeen = NotCalled
              /\ hostSeen = NotCalled
              /\ calls \cap {"metadata:instance-id", "hostname"} = {}
        /\ flagID = "" =>
              /\ mdSeen \in MetadataResults
              /\ ~mdSeen.err => (systemID = mdSeen.val /\ hostSeen = NotCalled)
              /\ mdSeen.err =>
                    /\ hostSeen \in HostnameResults
                    /\ ~hostSeen.err => systemID = hostSeen.val
                    /\ hostSeen.err =>
                          /\ systemID = ""
                          /\ outcomes = <<>>
                          /\ Done => exitCode = 1

C7_Witness ==
    /\ Done
    /\ flagID = ""
    /\ mdSeen.err
    /\ hostSeen = [err |-> FALSE, val |-> "host-1"]
    /\ systemID = "host-1"
    /\ TotalInvocations >= 1

\* C8 as stated: a run that ends at the invalid-unit gate has called no
\* network-facing collaborator at all.
C8_NoNetworkBeforeUnitGate ==
    (Done /\ gate = "units") => calls \cap NetworkTags = {}

\* C8 amended: with an invalid memoryUnit or volumeUnit no handler, transport
\* send or reporting sink is ever called; the only network-facing collaborator
\* called is the instance-metadata service, for the region default and, only
\* when no explicit id was given, for the instance id.
C8_NoSinkBeforeUnitGate ==
    (viper.volumeUnit \notin FiveTokens \/ viper.memoryUnit \notin FiveTokens) =>
        /\ "sink" \notin calls
        /\ outcomes = <<>>
        /\ calls \cap NetworkTags \subseteq {"metadata:region", "metadata:instance-id"}
        /\ "metadata:instance-id" \in calls => flagID = ""

C8_Witness ==
    /\ Done
    /\ gate = "units"
    /\ viper.volumeUnit = "xx"
    /\ "metadata:instance-id" \in calls
    /\ exitCode = 1

\* C9: the unit table maps b, kb, mb, gb, tb to 1, 1024, 1024^2, 1024^3,
\* 1024^4 and nothing else, in every state of the run, and the unit gate lets
\* a run through exactly when both configured tokens are among these five.
C9_UnitTable ==
    /\ DOMAIN storageUnits = FiveTokens
    /\ storageUnits["b"].Multiplier = <<0, 1>>
    /\ storageUnits["kb"].Multiplier = <<0, 1024>>
    /\ storageUnits["mb"].Multiplier = <<1, 0>>
    /\ storageUnits["gb"].Multiplier = <<1024, 0>>
    /\ storageUnits["tb"].Multiplier = <<1048576, 0>>
    /\ PastGates => (viper.volumeUnit \in FiveTokens /\ viper.memoryUnit \in FiveTokens)
    /\ gate = "units" =>
          ~(viper.volumeUnit \in FiveTokens /\ viper.memoryUnit \in FiveTokens)

C9_Witness ==
    /\ Done
    /\ gate = "none"
    /\ viper.volumeUnit = "tb"
    /\ viper.memoryUnit = "b"
    /\ TotalInvocations >= 1

\* C10: the phases follow one another only in the order validate-identity,
\* configure-session, resolve-metrics, validate-units, dedupe, execute-each,
\* compute-exit-code; configureSession runs exactly once, only with a
\* non-empty system id and before the first handler; a fatal exit happens
\* only at the identity, metric-list or unit gate, with no handler invoked.
Rank(p) ==
    CASE p = "validate-identity" -> 1
      [] p = "configure-session" -> 2
      [] p = "resolve-metrics" -> 3
      [] p = "validate-units" -> 4
      [] p = "dedupe" -> 5
      [] p = "execute-each" -> 6
      [] p = "compute-exit-code" -> 7
      [] p = "done" -> 8

PhaseStep ==
    /\ pc' # pc => Rank(pc') > Rank(pc)
    /\ pc' = pc => pc = "execute-each"
    /\ (pc' # pc /\ pc' # "compute-exit-code") => Rank(pc') = Rank(pc) + 1
    /\ (pc' = "compute-exit-code" /\ gate' # "none") =>
          /\ pc \in {"validate-identity", "resolve-metrics", "validate-units"}
          /\ outcomes' = <<>>
          /\ code' = 1
    /\ (pc' = "compute-exit-code" /\ gate' = "none") => pc = "execute-each"
    /\ configureCalls' # configureCalls =>
          /\ configureCalls = 0
          /\ configureCalls' = 1
          /\ pc = "configure-session"
          /\ systemID # ""
          /\ outcomes = <<>>
    /\ outcomes' # outcomes => (configureCalls = 1 /\ pc = "execute-each")
    /\ sess' # sess => pc = "configure-session"

C10_PhaseOrder ==
    /\ [](Rank(pc) > 2 /\ gate # "identity" => configureCalls = 1)
    /\ [](gate = "identity" => configureCalls = 0)
    /\ [][PhaseStep]_vars

C10_Witness ==
    /\ Done
    /\ gate = "none"
    /\ configureCalls = 1
    /\ sess = [Region |-> "us-east-1", Credentials |-> "static"]
    /\ Len(outcomes) = 2

====
